---------------------------- MODULE Spec2Model ----------------------------
(***************************************************************************)
(* Model of backend/ocr_pipeline.py: the lab-report extraction pipeline.   *)
(*                                                                         *)
(* Text is a sequence of one-character strings.  A number is an exact      *)
(* decimal [m |-> mantissa, e |-> number of decimals] kept canonical (no   *)
(* trailing zero in the fraction), so 1.3 is [m |-> 13, e |-> 1].  A       *)
(* regular expression is modelled by the set of positions at which it can  *)
(* match: re.search succeeds exactly when some assignment of positions     *)
(* satisfies the pattern, which is what backtracking decides.              *)
(***************************************************************************)
EXTENDS Integers, Sequences, FiniteSets, TLC

VARIABLES
    pc,       \* position of the running call
    arg,      \* the argument of the running call
    ret,      \* what the call returned (or the line/record under construction)
    text,     \* process_image_bytes: text, what the recognition returned
    lines,    \* _parse_lines: the non-empty stripped lines
    li,       \* _parse_lines: index i of the line the scan is at (0-based)
    out,      \* _parse_lines: out, field -> (val, unit)
    norm,     \* parse_labs: norm, field -> float
    pages,    \* process_pdf_bytes: the rendered pages
    idx,      \* process_pdf_bytes: index of the page the loop is at (0-based)
    merged,   \* process_pdf_bytes: merged
    texts     \* process_pdf_bytes: texts

vars == <<pc, arg, ret, text, lines, li, out, norm, pages, idx, merged, texts>>

-----------------------------------------------------------------------------
(* Characters *)

LowerCase == <<"a","b","c","d","e","f","g","h","i","j","k","l","m",
               "n","o","p","q","r","s","t","u","v","w","x","y","z">>
UpperCase == <<"A","B","C","D","E","F","G","H","I","J","K","L","M",
               "N","O","P","Q","R","S","T","U","V","W","X","Y","Z">>
DigitChars == <<"0","1","2","3","4","5","6","7","8","9">>

Digits == {DigitChars[k] : k \in 1..10}
Lowers == {LowerCase[k] : k \in 1..26}
Uppers == {UpperCase[k] : k \in 1..26}
LowerOf == [c \in Uppers |-> LowerCase[CHOOSE k \in 1..26 : UpperCase[k] = c]]
DigitOf == [c \in Digits |-> (CHOOSE k \in 1..10 : DigitChars[k] = c) - 1]

IsDigit(c) == c \in Digits
DigitVal(c) == DigitOf[c]
\* re.IGNORECASE: letters compare by their lower-case form
ToLower(c) == IF c \in Uppers THEN LowerOf[c] ELSE c
\* \w and \s of Python's re on str (U+00E2 is a letter; the other named
\* characters are punctuation)
WordChars == Digits \cup Lowers \cup Uppers \cup {"_", "U+00E2"}
IsWord(c) == c \in WordChars
IsSpace(c) == c \in {" ", "\t", "\n", "\r", "\f"}

\* s[a:b] of Python for 0 <= a, b <= len(s), as positions 1..Len(s)
Slice(s, a, b) == SubSeq(s, a + 1, b)
Max(a, b) == IF a >= b THEN a ELSE b
Min(a, b) == IF a <= b THEN a ELSE b

\* \b at offset p (0-based, between s[p-1] and s[p]) of s
WordBoundary(s, p) ==
    LET before == p >= 1 /\ IsWord(s[p])
        after == p < Len(s) /\ IsWord(s[p + 1])
    IN before # after

\* the offsets where a run of \s* starting at p may end
SpaceEnds(s, p) == {q \in p..Len(s) : \A k \in (p + 1)..q : IsSpace(s[k])}
\* the offsets where \d+ starting at p may end
DigitEnds(s, p) == {q \in (p + 1)..Len(s) : \A k \in (p + 1)..q : IsDigit(s[k])}
\* the offsets where \d+(?:\.\d+)? starting at p may end
NumberEnds(s, p) ==
    DigitEnds(s, p) \cup
    UNION {IF d < Len(s) /\ s[d + 1] = "." THEN DigitEnds(s, d + 1) ELSE {} : d \in DigitEnds(s, p)}
\* whether the literal lit (lower case) is at offset p of s, ignoring case
LitAt(s, p, lit) ==
    /\ p + Len(lit) <= Len(s)
    /\ \A k \in 1..Len(lit) : ToLower(s[p + k]) = lit[k]

-----------------------------------------------------------------------------
(* Numbers: float(val_txt) and the arithmetic parse_labs does, on exact decimals *)

Pow10(n) == IF n <= 0 THEN 1 ELSE LET p[k \in 0..n] == IF k = 0 THEN 1 ELSE 10 * p[k - 1] IN p[n]

RECURSIVE Canon(_, _)
\* the canonical form of m / 10^e
Canon(m, e) == IF e > 0 /\ m % 10 = 0 THEN Canon(m \div 10, e - 1) ELSE [m |-> m, e |-> e]

Zero == [m |-> 0, e |-> 0]

\* the integer a digit string denotes
DigitsValue(ds) ==
    LET v[k \in 0..Len(ds)] == IF k = 0 THEN 0 ELSE 10 * v[k - 1] + DigitVal(ds[k])
    IN v[Len(ds)]

\* float(txt) for txt matching \d+(?:\.\d+)?
ParseFloat(txt) ==
    LET dots == {k \in 1..Len(txt) : txt[k] = "."}
        ds == SelectSeq(txt, IsDigit)
    IN Canon(DigitsValue(ds), IF dots = {} THEN 0 ELSE Len(txt) - (CHOOSE k \in dots : TRUE))

\* round(num / den, 2) for den > 0, ties to even, as an exact decimal
Round2(num, den) ==
    LET k == IF den % 100 = 0 THEN 100 ELSE IF den % 10 = 0 THEN 10 ELSE 1
        n == num * (100 \div k)
        d == den \div k
        q == n \div d
        r == n - q * d
        up == 2 * r > d \/ (2 * r = d /\ q % 2 = 1)
    IN Canon(IF up THEN q + 1 ELSE q, 2)

\* a - b
Sub(a, b) ==
    LET e == Max(a.e, b.e)
    IN Canon(a.m * Pow10(e - a.e) - b.m * Pow10(e - b.e), e)

-----------------------------------------------------------------------------
(* The regular expressions of the parser *)

\* characters the model names by code point
EnDash == "U+2013"
\* the alternatives of (?:-|...|to|~) in _RANGE_RX; the second is the three
\* characters U+00E2 U+20AC U+201C the source file holds between "-|" and "|to"
RangeJoiners == {<<"-">>, <<"U+00E2", "U+20AC", "U+201C">>, <<"t", "o">>, <<"~">>}

JoinerEnds(s, p) == {p + Len(j) : j \in {x \in RangeJoiners : LitAt(s, p, x)}}

\* _RANGE_RX.search(s) is not None
RangeSearch(s) ==
    \E p \in 0..(Len(s) - 1) :
        /\ WordBoundary(s, p)
        /\ \E a \in NumberEnds(s, p) : \E b \in SpaceEnds(s, a) :
           \E c \in JoinerEnds(s, b) : \E d \in SpaceEnds(s, c) :
           \E e \in NumberEnds(s, d) : WordBoundary(s, e)

_is_range_context(s) == RangeSearch(s)

\* the end of the match of _NUMBER_RX that starts at offset p (greedy)
NumberEnd(s, p) ==
    LET d == CHOOSE q \in DigitEnds(s, p) : \A r \in DigitEnds(s, p) : r <= q
        f == IF d < Len(s) /\ s[d + 1] = "." THEN DigitEnds(s, d + 1) ELSE {}
    IN IF f = {} THEN d ELSE CHOOSE q \in f : \A r \in f : r <= q

RECURSIVE NumberMatches(_, _)
\* _NUMBER_RX.finditer(s) from offset p on: the spans <<start, end>>, in order
NumberMatches(s, p) ==
    LET starts == {k \in p..(Len(s) - 1) : IsDigit(s[k + 1])}
    IN IF starts = {} THEN <<>>
       ELSE LET st == CHOOSE k \in starts : \A r \in starts : k <= r
                en == NumberEnd(s, st)
            IN <<<<st, en>>>> \o NumberMatches(s, en)

\* the spans of (mg\/?dL|mmol\/?L) at offset p, ignoring case
UnitEnds(s, p) ==
    {p + Len(u) : u \in {x \in {<<"m","g","/","d","l">>, <<"m","g","d","l">>,
                                <<"m","m","o","l","/","l">>, <<"m","m","o","l","l">>} :
                         LitAt(s, p, x)}}

None == <<"None">>

\* _UNIT_RX.search(s): the matched text, or None
UnitSearch(s) ==
    LET hits == {p \in 0..(Len(s) - 1) :
                    WordBoundary(s, p) /\ \E q \in UnitEnds(s, p) : WordBoundary(s, q)}
    IN IF hits = {} THEN None
       ELSE LET p == CHOOSE k \in hits : \A r \in hits : k <= r
                q == CHOOSE k \in UnitEnds(s, p) : WordBoundary(s, k)
            IN Slice(s, p, q)

\* the window around a number the range check looks at
RangeWindow == 6
\* how far to the right of a number its unit is looked for
UnitWindow == 20

NoValue == [found |-> FALSE, val |-> Zero, unit |-> None]

RECURSIVE ExtractFrom(_, _, _)
\* the loop of _extract_value_unit_from_line over the matches ms[k..]
ExtractFrom(s, ms, k) ==
    IF k > Len(ms) THEN NoValue
    ELSE LET start == ms[k][1]
             end == ms[k][2]
             window == Slice(s, Max(0, start - RangeWindow), Min(Len(s), end + RangeWindow))
         IN IF RangeSearch(window) THEN ExtractFrom(s, ms, k + 1)
            ELSE [found |-> TRUE,
                  val |-> ParseFloat(Slice(s, start, end)),
                  unit |-> UnitSearch(Slice(s, end, Min(Len(s), end + UnitWindow)))]

_extract_value_unit_from_line(s) == ExtractFrom(s, NumberMatches(s, 0), 1)

-----------------------------------------------------------------------------
(* The alias table and its compiled patterns *)

\* ALIASES, in the order of the table; each alias is the text of the source
ALIASES ==
    [total_cholesterol |-> <<<<"t","o","t","a","l"," ","c","h","o","l","e","s","t","e","r","o","l">>,
                                <<"c","h","o","l","e","s","t","e","r","o","l"," ","t","o","t","a","l">>,
                                <<"c","h","o","l"," ","t","o","t","a","l">>,
                                <<"c","h","o","l",","," ","t","o","t","a","l">>,
                                <<"t","c">>>>,
     hdl |-> <<<<"h","d","l">>,
                  <<"h","d","l"," ","c","h","o","l","e","s","t","e","r","o","l">>,
                  <<"h","d","l","-","c","h","o","l","e","s","t","e","r","o","l">>,
                  <<"h","d","l","-","c">>,
                  <<"h","d","l"," ","c">>>>,
     ldl |-> <<<<"l","d","l">>,
                  <<"l","d","l"," ","c","h","o","l","e","s","t","e","r","o","l">>,
                  <<"l","d","l","-","c","h","o","l","e","s","t","e","r","o","l">>,
                  <<"l","d","l","-","c">>,
                  <<"l","d","l"," ","c">>,
                  <<"l","d","l"," ","c","a","l","c">>,
                  <<"l","d","l","-","c","h","o","l"," ","c","a","l","c">>,
                  <<"l","d","l"," ","c","h","o","l","e","s","t","e","r","o","l"," ","c","a","l","c">>,
                  <<"l","d","l"," ","c","a","l","c","u","l","a","t","e","d">>>>,
     triglycerides |-> <<<<"t","r","i","g","l","y","c","e","r","i","d","e","s">>,
                            <<"t","r","i","g">>,
                            <<"t","g">>,
                            <<"t","r","i","g","l","y","c">>>>,
     non_hdl |-> <<<<"n","o","n","-","h","d","l">>,
                      <<"n","o","n"," ","h","d","l">>,
                      <<"n","o","n","h","d","l">>>>,
     chol_hdl_ratio |-> <<<<"c","h","o","l",":","h","d","l"," ","r","a","t","i","o">>,
                             <<"c","h","o","l","/","h","d","l"," ","r","a","t","i","o">>,
                             <<"t","c","/","h","d","l"," ","r","a","t","i","o">>,
                             <<"c","h","o","l"," ","t","o"," ","h","d","l"," ","r","a","t","i","o">>>>,
     glucose |-> <<<<"g","l","u","c","o","s","e">>,
                      <<"f","a","s","t","i","n","g"," ","g","l","u","c","o","s","e">>,
                      <<"f","p","g">>>>,
     bun |-> <<<<"b","u","n">>,
                  <<"b","l","o","o","d"," ","u","r","e","a"," ","n","i","t","r","o","g","e","n">>>>,
     creatinine |-> <<<<"c","r","e","a","t","i","n","i","n","e">>>>,
     sodium |-> <<<<"s","o","d","i","u","m">>,
                     <<"n","a">>>>,
     potassium |-> <<<<"p","o","t","a","s","s","i","u","m">>,
                        <<"k">>>>,
     chloride |-> <<<<"c","h","l","o","r","i","d","e">>,
                       <<"c","l">>>>,
     bicarbonate |-> <<<<"b","i","c","a","r","b","o","n","a","t","e">>,
                          <<"c","o","2">>,
                          <<"c","a","r","b","o","n"," ","d","i","o","x","i","d","e">>>>,
     calcium |-> <<<<"c","a","l","c","i","u","m">>,
                      <<"c","a">>>>,
     albumin |-> <<<<"a","l","b","u","m","i","n">>>>,
     total_protein |-> <<<<"t","o","t","a","l"," ","p","r","o","t","e","i","n">>,
                            <<"p","r","o","t","e","i","n"," ","t","o","t","a","l">>>>,
     alt |-> <<<<"a","l","t">>,
                  <<"a","l","a","n","i","n","e"," ","a","m","i","n","o","t","r","a","n","s","f","e","r","a","s","e">>,
                  <<"a","l","a","n","i","n","e"," ","t","r","a","n","s","a","m","i","n","a","s","e">>>>,
     ast |-> <<<<"a","s","t">>,
                  <<"a","s","p","a","r","t","a","t","e"," ","a","m","i","n","o","t","r","a","n","s","f","e","r","a","s","e">>,
                  <<"a","s","p","a","r","t","a","t","e"," ","t","r","a","n","s","a","m","i","n","a","s","e">>>>,
     alp |-> <<<<"a","l","p">>,
                  <<"a","l","k","a","l","i","n","e"," ","p","h","o","s","p","h","a","t","a","s","e">>>>,
     bilirubin |-> <<<<"b","i","l","i","r","u","b","i","n">>,
                        <<"t","o","t","a","l"," ","b","i","l","i","r","u","b","i","n">>,
                        <<"t","b","i","l","i">>>>,
     wbc |-> <<<<"w","b","c">>,
                  <<"w","h","i","t","e"," ","b","l","o","o","d"," ","c","e","l","l","s">>,
                  <<"l","e","u","k","o","c","y","t","e","s">>>>,
     rbc |-> <<<<"r","b","c">>,
                  <<"r","e","d"," ","b","l","o","o","d"," ","c","e","l","l","s">>>>,
     hgb |-> <<<<"h","g","b">>,
                  <<"h","e","m","o","g","l","o","b","i","n">>>>,
     hct |-> <<<<"h","c","t">>,
                  <<"h","e","m","a","t","o","c","r","i","t">>>>,
     mcv |-> <<<<"m","c","v">>>>,
     rdw |-> <<<<"r","d","w">>,
                  <<"r","d","w","-","c","v">>>>,
     plt |-> <<<<"p","l","t">>,
                  <<"p","l","a","t","e","l","e","t","s">>>>,
     mpv |-> <<<<"m","p","v">>>>,
     neut |-> <<<<"n","e","u","t">>,
                   <<"n","e","u","t","r","o","p","h","i","l","s">>>>,
     lymph |-> <<<<"l","y","m","p","h">>,
                    <<"l","y","m","p","h","o","c","y","t","e","s">>>>,
     mono |-> <<<<"m","o","n","o">>,
                   <<"m","o","n","o","c","y","t","e","s">>>>,
     eos |-> <<<<"e","o","s">>,
                  <<"e","o","s","i","n","o","p","h","i","l","s">>>>,
     baso |-> <<<<"b","a","s","o">>,
                   <<"b","a","s","o","p","h","i","l","s">>>>,
     crp |-> <<<<"c","r","p">>,
                  <<"h","s","-","c","r","p">>,
                  <<"c","-","r","e","a","c","t","i","v","e"," ","p","r","o","t","e","i","n">>>>]

\* the keys of ALIASES (and so of PATTERNS) in dict order
FieldOrder ==
    <<"total_cholesterol", "hdl", "ldl", "triglycerides", "non_hdl",
      "chol_hdl_ratio", "glucose", "bun", "creatinine", "sodium",
      "potassium", "chloride", "bicarbonate", "calcium", "albumin",
      "total_protein", "alt", "ast", "alp", "bilirubin", "wbc", "rbc",
      "hgb", "hct", "mcv", "rdw", "plt", "mpv", "neut", "lymph", "mono",
      "eos", "baso", "crp">>

Fields == {FieldOrder[k] : k \in 1..Len(FieldOrder)}

RECURSIVE SplitWords(_)
\* re.split(r"\s+", alias.strip().lower()) for an alias of the table
SplitWords(a) ==
    LET sp == {k \in 1..Len(a) : IsSpace(a[k])}
    IN IF sp = {} THEN <<a>>
       ELSE LET k == CHOOSE x \in sp : \A y \in sp : x <= y
                rest == {x \in (k + 1)..Len(a) : ~IsSpace(a[x])}
                nx == CHOOSE x \in rest : \A y \in rest : x <= y
            IN <<SubSeq(a, 1, k - 1)>> \o SplitWords(SubSeq(a, nx, Len(a)))

\* the offsets where a run of \W* starting at p may end
NonWordEnds(s, p) == {q \in p..Len(s) : \A k \in (p + 1)..q : ~IsWord(s[k])}

RECURSIVE PartsEnds(_, _, _, _)
\* the offsets where parts[k] \W* parts[k+1] ... starting at p may end
PartsEnds(s, p, parts, k) ==
    IF ~LitAt(s, p, parts[k]) THEN {}
    ELSE IF k = Len(parts) THEN {p + Len(parts[k])}
    ELSE UNION {PartsEnds(s, q, parts, k + 1) : q \in NonWordEnds(s, p + Len(parts[k]))}

\* _alias_to_pattern(alias): the words of the alias, which the pattern joins with \W*
\* between two \b
_alias_to_pattern(alias) == SplitWords(alias)

\* _build_compiled_patterns(): per field the patterns of its aliases, in order
\* (the tail every pattern shares is TailEnd)
PATTERNS == [c \in Fields |-> [k \in 1..Len(ALIASES[c]) |-> _alias_to_pattern(ALIASES[c][k])]]

\* the offsets where the pattern of one alias, matched at offset p, may end
AliasEnds(s, p, parts) ==
    IF LitAt(s, p, parts[1]) /\ WordBoundary(s, p)
    THEN {q \in PartsEnds(s, p, parts, 1) : WordBoundary(s, q)}
    ELSE {}

\* the end of the tail .*?(?:VALUE)?\s*(?:UNIT)? of a pattern, entered at offset p:
\* the lazy .*? takes nothing, each optional group takes what is there
TailEnd(s, p) ==
    LET a == IF DigitEnds(s, p) = {} THEN p ELSE NumberEnd(s, p)
        b == CHOOSE q \in SpaceEnds(s, a) : \A r \in SpaceEnds(s, a) : r <= q
        u == UnitEnds(s, b)
    IN IF u = {} THEN b ELSE CHOOSE q \in u : TRUE

NoMatch == [found |-> FALSE, end |-> 0]

\* the offsets where a word starts: every pattern opens with \b and a letter, so
\* these are the only offsets where it can match
WordStarts(s) == {p \in 0..(Len(s) - 1) : IsWord(s[p + 1]) /\ (p = 0 \/ ~IsWord(s[p]))}

\* PATTERNS[canonical].search(s): whether it matches and m.end()
PatternSearch(s, canonical) ==
    LET als == PATTERNS[canonical]
        hits == {p \in WordStarts(s) :
                    \E k \in 1..Len(als) : AliasEnds(s, p, als[k]) # {}}
    IN IF hits = {} THEN NoMatch
       ELSE LET p == CHOOSE x \in hits : \A y \in hits : x <= y
                ks == {k \in 1..Len(als) : AliasEnds(s, p, als[k]) # {}}
                k == CHOOSE x \in ks : \A y \in ks : x <= y
                q == CHOOSE x \in AliasEnds(s, p, als[k]) : TRUE
            IN [found |-> TRUE, end |-> TailEnd(s, q)]

-----------------------------------------------------------------------------
(* _parse_lines *)

LineBreaks == {"\n", "\r", "\f"}

RECURSIVE SplitLines(_)
\* text.splitlines()
SplitLines(t) ==
    LET br == {k \in 1..Len(t) : t[k] \in LineBreaks}
    IN IF br = {} THEN (IF t = <<>> THEN <<>> ELSE <<t>>)
       ELSE LET k == CHOOSE x \in br : \A y \in br : x <= y
                n == IF t[k] = "\r" /\ k < Len(t) /\ t[k + 1] = "\n" THEN k + 2 ELSE k + 1
            IN <<SubSeq(t, 1, k - 1)>> \o SplitLines(SubSeq(t, n, Len(t)))

\* ln.strip()
Strip(ln) ==
    LET ink == {k \in 1..Len(ln) : ~IsSpace(ln[k])}
    IN IF ink = {} THEN <<>>
       ELSE SubSeq(ln, CHOOSE x \in ink : \A y \in ink : x <= y,
                       CHOOSE x \in ink : \A y \in ink : y <= x)

IsNonEmpty(ln) == ln # <<>>

\* [ln.strip() for ln in text.splitlines() if ln.strip()]
StrippedLines(t) ==
    LET raw == SplitLines(t)
    IN SelectSeq([k \in 1..Len(raw) |-> Strip(raw[k])], IsNonEmpty)

\* range(1, 3): the lookahead reads lines i+1 .. i+LookaheadStop-1
LookaheadStop == 3

RECURSIVE Lookahead_Far(_, _, _)
\* a lookahead that reads one line more
Lookahead_Far(ls, i, j) ==
    IF j >= LookaheadStop + 1 \/ i + j >= Len(ls) THEN NoValue
    ELSE LET v2 == _extract_value_unit_from_line(ls[i + j + 1])
         IN IF v2.found THEN v2 ELSE Lookahead_Far(ls, i, j + 1)

RECURSIVE Lookahead(_, _, _)
\* the lookahead loop of _parse_lines from j on, for the match on line i (0-based)
Lookahead(ls, i, j) ==
    IF j >= LookaheadStop \/ i + j >= Len(ls) THEN NoValue
    ELSE LET v2 == _extract_value_unit_from_line(ls[i + j + 1])
         IN IF v2.found THEN v2 ELSE Lookahead(ls, i, j + 1)

\* a resolution that reads the whole line of the match, not what follows the match
ResolveAt_WholeLine(ls, i, m) ==
    LET same == _extract_value_unit_from_line(ls[i + 1])
    IN IF same.found THEN same ELSE Lookahead(ls, i, 1)

\* what one match of a pattern on line i resolves to: same line first, then lookahead
ResolveAt(ls, i, m) ==
    LET ln == ls[i + 1]
        same == _extract_value_unit_from_line(Slice(ln, m.end, Len(ln)))
    IN IF same.found THEN same ELSE Lookahead(ls, i, 1)

\* an inner loop body without the test that skips a field already in the map
StepField_Overwrite(o, ls, i, canonical) ==
    LET m == PatternSearch(ls[i + 1], canonical)
    IN IF ~m.found THEN o
       ELSE LET r == ResolveAt(ls, i, m)
            IN IF r.found
               THEN (canonical :> [val |-> r.val, unit |-> r.unit]) @@ o
               ELSE o

\* the body of the inner loop of _parse_lines for one field on line i
StepField(o, ls, i, canonical) ==
    IF canonical \in DOMAIN o THEN o
    ELSE LET m == PatternSearch(ls[i + 1], canonical)
         IN IF ~m.found THEN o
            ELSE LET r == ResolveAt(ls, i, m)
                 IN IF r.found
                    THEN (canonical :> [val |-> r.val, unit |-> r.unit]) @@ o
                    ELSE o

RECURSIVE StepLine_OneFieldPerLine(_, _, _, _, _)
\* an inner loop that leaves the line after the first field it resolves
StepLine_OneFieldPerLine(o, ls, i, order, k) ==
    IF k > Len(order) THEN o
    ELSE LET o2 == StepField(o, ls, i, order[k])
         IN IF DOMAIN o2 # DOMAIN o THEN o2
            ELSE StepLine_OneFieldPerLine(o2, ls, i, order, k + 1)

RECURSIVE StepLine(_, _, _, _, _)
\* the inner loop of _parse_lines on line i over order[k..]
\* (the test on DOMAIN is always true: it makes TLC compute the map of this
\* iteration before it enters the next one)
StepLine(o, ls, i, order, k) ==
    IF k > Len(order) THEN o
    ELSE LET o2 == StepField(o, ls, i, order[k])
         IN IF DOMAIN o2 \subseteq Fields THEN StepLine(o2, ls, i, order, k + 1) ELSE o2

EmptyMap == <<>>

RECURSIVE ParseFrom(_, _, _)
\* the outer loop of _parse_lines from line i on
ParseFrom(o, ls, i) ==
    IF i >= Len(ls) THEN o
    ELSE LET o2 == StepLine(o, ls, i, FieldOrder, 1)
         IN IF DOMAIN o2 \subseteq Fields THEN ParseFrom(o2, ls, i + 1) ELSE o2

_parse_lines(t) == ParseFrom(EmptyMap, StrippedLines(t), 0)

-----------------------------------------------------------------------------
(* Unit normalization and derived metrics *)

\* CONVERSIONS_MMolL_to_MgDL, each rate as an exact decimal
CONVERSIONS_MMolL_to_MgDL ==
    [glucose |-> [m |-> 180182, e |-> 4],
     triglycerides |-> [m |-> 8857, e |-> 2],
     cholesterol |-> [m |-> 3867, e |-> 2]]

\* re.search(r"mg/?dl", unit, re.I) is not None
MgdlSearch(unit) ==
    \E p \in 0..(Len(unit) - 1) :
        LitAt(unit, p, <<"m","g","/","d","l">>) \/ LitAt(unit, p, <<"m","g","d","l">>)

\* re.search(r"mmol/?l", unit, re.I) is not None
MmolSearch(unit) ==
    \E p \in 0..(Len(unit) - 1) :
        LitAt(unit, p, <<"m","m","o","l","/","l">>) \/ LitAt(unit, p, <<"m","m","o","l","l">>)

\* round(value * rate, 2)
Convert(value, rate) == Round2(value.m * rate.m, Pow10(value.e + rate.e))

\* a conversion that forgets ldl among the cholesterol fields
_to_mgdl_WithoutLdl(name, value, unit) ==
    IF unit = None \/ MgdlSearch(unit) THEN value
    ELSE IF MmolSearch(unit) /\ name \in {"total_cholesterol", "hdl"}
         THEN Convert(value, CONVERSIONS_MMolL_to_MgDL.cholesterol)
    ELSE IF MmolSearch(unit) /\ name = "triglycerides"
         THEN Convert(value, CONVERSIONS_MMolL_to_MgDL.triglycerides)
    ELSE IF MmolSearch(unit) /\ name = "glucose"
         THEN Convert(value, CONVERSIONS_MMolL_to_MgDL.glucose)
    ELSE value

_to_mgdl(name, value, unit) ==
    IF unit = None \/ MgdlSearch(unit) THEN value
    ELSE IF MmolSearch(unit) /\ name \in {"total_cholesterol", "hdl", "ldl"}
         THEN Convert(value, CONVERSIONS_MMolL_to_MgDL.cholesterol)
    ELSE IF MmolSearch(unit) /\ name = "triglycerides"
         THEN Convert(value, CONVERSIONS_MMolL_to_MgDL.triglycerides)
    ELSE IF MmolSearch(unit) /\ name = "glucose"
         THEN Convert(value, CONVERSIONS_MMolL_to_MgDL.glucose)
    ELSE value

_normalize_units(parsed) ==
    [name \in DOMAIN parsed |-> _to_mgdl(name, parsed[name].val, parsed[name].unit)]

\* a difference that is not held at 0
NonHdl_Unclamped(tc, h) ==
    LET d == Sub(tc, h)
    IN Round2(d.m, Pow10(d.e))

\* a difference with its operands exchanged
NonHdl_Reversed(tc, h) ==
    LET d == Sub(h, tc)
        r == Round2(d.m, Pow10(d.e))
    IN IF r.m < 0 THEN Zero ELSE r

\* max(0.0, round(tc - h, 2))
NonHdl(tc, h) ==
    LET d == Sub(tc, h)
        r == Round2(d.m, Pow10(d.e))
    IN IF r.m < 0 THEN Zero ELSE r

\* round(tc / h, 2) for h > 0
Ratio(tc, h) == Round2(tc.m * Pow10(h.e), h.m * Pow10(tc.e))

\* the derived-metric block of parse_labs, on the normalized map
Derive(n) ==
    IF "total_cholesterol" \in DOMAIN n /\ "hdl" \in DOMAIN n /\ "non_hdl" \notin DOMAIN n
    THEN LET tc == n["total_cholesterol"]
             h == n["hdl"]
             withNon == ("non_hdl" :> NonHdl(tc, h)) @@ n
         IN IF h.m > 0 THEN ("chol_hdl_ratio" :> Ratio(tc, h)) @@ withNon ELSE withNon
    ELSE n

parse_labs(t) == Derive(_normalize_units(_parse_lines(t)))

-----------------------------------------------------------------------------
(* Inputs *)

\* how many tokens a generated line has at most
MaxTokens == 4
\* the largest mantissa and the most decimals of a generated value
MaxMantissa == 24
MaxDecimals == 2
\* how many lines a generated page has at most
MaxLines == 4
MaxLabLines == 3
\* how many pages a generated document has at most
MaxPages == 3
\* the length of the blank page text
PadLen == 2496

\* all concatenations of at most n members of toks
RECURSIVE Concats(_, _)
Concats(toks, n) ==
    IF n = 0 THEN {<<>>}
    ELSE LET shorter == Concats(toks, n - 1)
         IN shorter \cup {t \o c : t \in toks, c \in shorter}

\* the pieces lines handed to _extract_value_unit_from_line are made of
ExtractTokens ==
    {<<"4">>, <<"5">>, <<".">>, <<" ">>, <<"-">>, <<EnDash>>, <<"~">>, <<"t","o">>,
     <<" ","m","g","/","d","L">>}

ExtractInputs == Concats(ExtractTokens, MaxTokens)

\* whether value * rate lies exactly half way between two 2-decimal numbers: there
\* round() decides by the binary double of the product, which this model does
\* not hold, so the generated values leave these out
IsTie(value, rate) ==
    LET den == Pow10(value.e + rate.e)
        n == value.m * rate.m * 100
    IN 2 * (n % den) = den

Rates == {CONVERSIONS_MMolL_to_MgDL.glucose, CONVERSIONS_MMolL_to_MgDL.triglycerides,
          CONVERSIONS_MMolL_to_MgDL.cholesterol}

UnitValues ==
    {v \in {Canon(m, e) : m \in 0..MaxMantissa, e \in 0..MaxDecimals} :
        \A rate \in Rates : ~IsTie(v, rate)}

\* texts that denote mg/dL, texts that denote mmol/L, and texts that denote neither
MgdlTexts == {<<"m","g","/","d","L">>, <<"m","g","d","L">>, <<"M","G","/","D","L">>,
              <<"m","g","/","d","l">>}
MmolTexts == {<<"m","m","o","l","/","L">>, <<"m","m","o","l","L">>,
              <<"M","M","O","L","/","L">>}
OtherTexts == {<<>>, <<"g","/","L">>, <<"I","U">>, <<"m","m","o","l">>, <<"m","g","/","L">>}

UnitInputs == {None} \cup MgdlTexts \cup MmolTexts \cup OtherTexts

NL == <<"\n">>

\* "\n".join(ls) for the sequences ls of at most n members of lns
RECURSIVE Texts(_, _)
Texts(lns, n) ==
    IF n = 0 THEN {<<>>}
    ELSE LET shorter == Texts(lns, n - 1)
         IN shorter \cup lns \cup {l \o NL \o t : l \in lns, t \in shorter \ {<<>>}}

W_HDL == <<"H","D","L">>
W_TC == <<"T","C">>
W_NonHDL == <<"N","o","n","-","H","D","L">>
W_Ratio == <<"C","h","o","l","/","H","D","L"," ","R","a","t","i","o">>
W_mmol == <<" ","m","m","o","l","/","L">>

\* lines that exercise the scan: a label alone, a label with its value, a value
\* alone, a line with neither, a label followed only by a range, a value before
\* its label
ScanLines ==
    {W_HDL,
     W_HDL \o <<" ","4","5">>,
     <<"5","2">>,
     <<"r","e","f">>,
     W_HDL \o <<" ","4","-","6">>,
     <<"7"," ">> \o W_HDL}

\* lines of a lipid panel, in mg/dL and in mmol/L
LabLines ==
    {W_TC \o <<" ","2","0","0">>,
     W_TC \o <<" ","5",".","2">> \o W_mmol,
     W_TC \o <<" ","4","0">>,
     W_HDL \o <<" ","5","0">>,
     W_HDL \o <<" ","0">>,
     W_HDL \o <<" ","1",".","3">> \o W_mmol,
     W_NonHDL \o <<" ","1","3","0">>,
     W_Ratio \o <<" ","3",".","9">>}

ScanTexts == Texts(ScanLines, MaxLines)
LabTexts == Texts(LabLines, MaxLabLines)

\* what the recognition of a page of a document may give: a page with one field,
\* a page with two, a page that repeats one of them with another value, a page no
\* field is found on, a page non_hdl is read from, and a long blank page
PdfTexts ==
    {W_TC \o <<" ","1","8","0">>,
     W_TC \o <<" ","2","0","0">> \o NL \o W_HDL \o <<" ","5","0">>,
     W_HDL \o <<" ","6","0">>,
     <<"r","e","f">>,
     W_NonHDL \o <<" ","1","3","0">>,
     [k \in 1..PadLen |-> " "]}

RECURSIVE Docs(_)
\* the documents of at most n pages, each page the text its recognition gives
Docs(n) ==
    IF n = 0 THEN {<<>>}
    ELSE LET shorter == Docs(n - 1)
         IN shorter \cup {Append(d, t) : d \in {x \in shorter : Len(x) = n - 1}, t \in PdfTexts}

PdfDocs == Docs(MaxPages)

\* a request: an image (the text its recognition gives) or a document (its pages)
ImageOf(t) == [source |-> "image", text |-> t]
PdfOf(d) == [source |-> "pdf", pages |-> d]

Idle == <<>>
NoResult == [kind |-> "none"]

-----------------------------------------------------------------------------
(* _extract_value_unit_from_line as a call *)

InitExtract ==
    /\ pc = "extract"
    /\ arg \in ExtractInputs
    /\ ret = NoValue
    /\ text = Idle /\ lines = Idle /\ li = 0 /\ out = EmptyMap /\ norm = EmptyMap
    /\ pages = Idle /\ idx = 0 /\ merged = EmptyMap /\ texts = Idle

Extract ==
    /\ pc = "extract"
    /\ ret' = _extract_value_unit_from_line(arg)
    /\ pc' = "done"
    /\ UNCHANGED <<arg, text, lines, li, out, norm, pages, idx, merged, texts>>

NextExtract == Extract

SpecExtract == InitExtract /\ [][NextExtract]_vars

-----------------------------------------------------------------------------
(* _normalize_units as a call *)

InitUnits ==
    /\ pc = "normalize"
    /\ \E name \in Fields, v \in UnitValues, u \in UnitInputs :
          arg = (name :> [val |-> v, unit |-> u])
    /\ ret = EmptyMap
    /\ text = Idle /\ lines = Idle /\ li = 0 /\ out = EmptyMap /\ norm = EmptyMap
    /\ pages = Idle /\ idx = 0 /\ merged = EmptyMap /\ texts = Idle

NormalizeUnits ==
    /\ pc = "normalize"
    /\ ret' = _normalize_units(arg)
    /\ pc' = "done"
    /\ UNCHANGED <<arg, text, lines, li, out, norm, pages, idx, merged, texts>>

NextUnits == NormalizeUnits

SpecUnits == InitUnits /\ [][NextUnits]_vars

-----------------------------------------------------------------------------
(* process_image_bytes: one image, or one page of a document *)

\* the exception a failing call raises
Exception(what, page) == [kind |-> "raise", what |-> what, page |-> page]

\* a handler that goes back to the head of the page loop
Unhandled_Retry(what) == "page"

\* process_image_bytes and process_pdf_bytes catch nothing these calls raise: the
\* exception leaves both
Unhandled(what) == "raised"

\* a call of the pipeline that either succeeds or raises
Stage(at, what, next) ==
    /\ pc = at
    /\ \E ok \in BOOLEAN :
          IF ok THEN pc' = next /\ UNCHANGED ret
          ELSE ret' = Exception(what, idx) /\ pc' = Unhandled(what)
    /\ UNCHANGED <<arg, text, lines, li, out, norm, pages, idx, merged, texts>>

\* Image.open(io.BytesIO(b))
ImageOpen == Stage("open", "Image.open", "exif")

\* ImageOps.exif_transpose(pil) in try/except Exception: pass
ExifTranspose ==
    /\ pc = "exif"
    /\ \E ok \in BOOLEAN : pc' = "preprocess"
    /\ UNCHANGED <<arg, ret, text, lines, li, out, norm, pages, idx, merged, texts>>

\* preprocess_pil(pil)
Preprocess == Stage("preprocess", "preprocess_pil", "ocr")

\* text = ocr_to_text(pre)
Ocr ==
    /\ pc = "ocr"
    /\ \E ok \in BOOLEAN :
          IF ok
          THEN /\ text' = IF arg.source = "pdf" THEN pages[idx + 1] ELSE arg.text
               /\ pc' = "split"
               /\ UNCHANGED ret
          ELSE /\ ret' = Exception("ocr_to_text", idx)
               /\ pc' = Unhandled("ocr_to_text")
               /\ UNCHANGED text
    /\ UNCHANGED <<arg, lines, li, out, norm, pages, idx, merged, texts>>

\* _parse_lines up to its loop: out = {} and the non-empty stripped lines
SplitText ==
    /\ pc = "split"
    /\ lines' = StrippedLines(text)
    /\ li' = 0
    /\ out' = EmptyMap
    /\ pc' = "scan"
    /\ UNCHANGED <<arg, ret, text, norm, pages, idx, merged, texts>>

\* one iteration of "for i, ln in enumerate(lines)": every field is tried on line i
ScanLine ==
    /\ pc = "scan"
    /\ li < Len(lines)
    /\ out' = StepLine(out, lines, li, FieldOrder, 1)
    /\ li' = li + 1
    /\ UNCHANGED <<pc, arg, ret, text, lines, norm, pages, idx, merged, texts>>

\* _parse_lines returns; norm = _normalize_units(parsed)
Normalize ==
    /\ pc = "scan"
    /\ li = Len(lines)
    /\ norm' = _normalize_units(out)
    /\ pc' = "derive"
    /\ UNCHANGED <<arg, ret, text, lines, li, out, pages, idx, merged, texts>>

\* the derived-metric block of parse_labs; parse_labs returns norm
DeriveMetrics ==
    /\ pc = "derive"
    /\ norm' = Derive(norm)
    /\ pc' = "part"
    /\ UNCHANGED <<arg, ret, text, lines, li, out, pages, idx, merged, texts>>

\* process_image_bytes returns {"fields": fields, "raw_text": text, "meta": ...},
\* to the caller of the service or to the loop of process_pdf_bytes
ReturnPart ==
    /\ pc = "part"
    /\ IF arg.source = "pdf"
       THEN pc' = "merge" /\ UNCHANGED ret
       ELSE /\ ret' = [kind |-> "return", fields |-> norm, raw_text |-> text,
                       meta |-> [pages |-> 1, source |-> "image"]]
            /\ pc' = "done"
    /\ UNCHANGED <<arg, text, lines, li, out, norm, pages, idx, merged, texts>>

InitImage(inputs) ==
    /\ pc = "open"
    /\ \E t \in inputs : arg = ImageOf(t)
    /\ ret = NoResult
    /\ text = Idle /\ lines = Idle /\ li = 0 /\ out = EmptyMap /\ norm = EmptyMap
    /\ pages = Idle /\ idx = 0 /\ merged = EmptyMap /\ texts = Idle

InitScan == InitImage(ScanTexts)
InitLabs == InitImage(LabTexts)

NextImage ==
    \/ ImageOpen \/ ExifTranspose \/ Preprocess \/ Ocr
    \/ SplitText \/ ScanLine \/ Normalize \/ DeriveMetrics \/ ReturnPart

SpecScan == InitScan /\ [][NextImage]_vars
SpecLabs == InitLabs /\ [][NextImage]_vars

-----------------------------------------------------------------------------
(* process_pdf_bytes *)

\* the cap of raw_text, [:5000]
RawTextCap == 5000
\* "\n\n-----\n\n"
PageSeparator == <<"\n","\n","-","-","-","-","-","\n","\n">>
\* dpi: int = 400
Dpi == 400

RECURSIVE Join(_, _)
\* sep.join(ts)
Join(sep, ts) ==
    IF ts = <<>> THEN <<>>
    ELSE IF Len(ts) = 1 THEN ts[1]
    ELSE ts[1] \o sep \o Join(sep, Tail(ts))

\* a slice that cuts nothing
Prefix_Uncut(s, n) == s

\* s[:n]
Prefix(s, n) == SubSeq(s, 1, Min(Len(s), n))

\* a merge in which the value of the latest page stays
MergeFields_LastWins(m, fields) ==
    [k \in DOMAIN m \cup DOMAIN fields |-> IF k \in DOMAIN fields THEN fields[k] ELSE m[k]]

\* the merge loop over part["fields"].items(): the first value of a key stays
\* (every value parse_labs gives is a float, so the isinstance test passes)
MergeFields(m, fields) ==
    [k \in DOMAIN m \cup DOMAIN fields |-> IF k \in DOMAIN m THEN m[k] ELSE fields[k]]

InitPdf ==
    /\ pc = "convert"
    /\ \E d \in PdfDocs : arg = PdfOf(d)
    /\ ret = NoResult
    /\ text = Idle /\ lines = Idle /\ li = 0 /\ out = EmptyMap /\ norm = EmptyMap
    /\ pages = Idle /\ idx = 0 /\ merged = EmptyMap /\ texts = Idle

\* convert_from_bytes: the pages, or an exception (PDFInfoNotInstalledError is
\* raised again as RuntimeError, anything else leaves as it is)
ConvertFromBytes ==
    /\ pc = "convert"
    /\ \E outcome \in {"ok", "RuntimeError", "error"} :
          IF outcome = "ok"
          THEN /\ pages' = arg.pages
               /\ merged' = EmptyMap
               /\ texts' = <<>>
               /\ pc' = "page"
               /\ UNCHANGED ret
          ELSE /\ ret' = Exception(outcome, 0)
               /\ pc' = "raised"
               /\ UNCHANGED <<pages, merged, texts>>
    /\ UNCHANGED <<arg, text, lines, li, out, norm, idx>>

\* "for p in pages": the next page, or the end of the loop
LoopHead ==
    /\ pc = "page"
    /\ pc' = IF idx < Len(pages) THEN "save" ELSE "return"
    /\ UNCHANGED <<arg, ret, text, lines, li, out, norm, pages, idx, merged, texts>>

\* p.save(buf, format="PNG")
SavePage == Stage("save", "save", "open")

\* texts.append(part["raw_text"]) and the merge of part["fields"]
MergePage ==
    /\ pc = "merge"
    /\ texts' = Append(texts, text)
    /\ merged' = MergeFields(merged, norm)
    /\ idx' = idx + 1
    /\ pc' = "page"
    /\ UNCHANGED <<arg, ret, text, lines, li, out, norm, pages>>

\* return {"fields": merged, "raw_text": ..., "meta": ...}
Return ==
    /\ pc = "return"
    /\ ret' = [kind |-> "return",
               fields |-> merged,
               raw_text |-> Prefix(Join(PageSeparator, texts), RawTextCap),
               meta |-> [pages |-> Len(pages), source |-> "pdf", dpi |-> Dpi]]
    /\ pc' = "done"
    /\ UNCHANGED <<arg, text, lines, li, out, norm, pages, idx, merged, texts>>

NextPdf ==
    \/ ConvertFromBytes \/ LoopHead \/ SavePage
    \/ ImageOpen \/ ExifTranspose \/ Preprocess \/ Ocr
    \/ SplitText \/ ScanLine \/ Normalize \/ DeriveMetrics \/ ReturnPart
    \/ MergePage \/ Return

SpecPdf == InitPdf /\ [][NextPdf]_vars

-----------------------------------------------------------------------------
(* The merge of the pages of a document *)

\* the FieldMap of each page text, by parse_labs as one function of the text
PageFields == [t \in PdfTexts |-> parse_labs(t)]

\* the indexes of the pages whose FieldMap holds k
PagesWith(k) == {i \in 1..Len(pages) : k \in DOMAIN PageFields[pages[i]]}

FirstPageWith(k) == CHOOSE i \in PagesWith(k) : \A j \in PagesWith(k) : i <= j

\* C1: when process_pdf_bytes has returned, the merged fields hold a field k
\* exactly when the FieldMap of some page holds k, and with the value of the
\* lowest-indexed such page: no later page overwrites it and a page without
\* fields blocks nothing.
C1_FirstPageWins ==
    (pc = "done" /\ arg.source = "pdf") =>
        /\ DOMAIN ret.fields \subseteq Fields
        /\ \A k \in Fields :
              /\ k \in DOMAIN ret.fields <=> PagesWith(k) # {}
              /\ k \in DOMAIN ret.fields =>
                    ret.fields[k] = PageFields[pages[FirstPageWith(k)]][k]

\* a document whose first page has no field, whose second and third page both
\* hold total_cholesterol with different values, has returned
C1_Witness ==
    /\ pc = "done"
    /\ arg.source = "pdf"
    /\ Len(pages) = 3
    /\ PageFields[pages[1]] = EmptyMap
    /\ PagesWith("total_cholesterol") = {2, 3}
    /\ PageFields[pages[2]].total_cholesterol # PageFields[pages[3]].total_cholesterol
    /\ ret.fields.total_cholesterol = Canon(180, 0)
    /\ ret.fields.hdl = Canon(50, 0)

-----------------------------------------------------------------------------
(* Reference ranges *)

\* what joins the two numbers of a reference range: a hyphen, an en-dash, the
\* word "to", or "~"
WrittenJoiners == {<<"-">>, <<EnDash>>, <<"t", "o">>, <<"~">>}

\* whether the text between two numbers joins them to a range
JoinsRange(between) ==
    \E a \in SpaceEnds(between, 0) : \E j \in WrittenJoiners :
        /\ LitAt(between, a, j)
        /\ Len(between) \in SpaceEnds(between, a + Len(j))

\* the indexes of the numbers of s that are one end of a range
RangeEnds(s) ==
    LET ms == NumberMatches(s, 0)
        joined == {k \in 1..(Len(ms) - 1) : JoinsRange(Slice(s, ms[k][2], ms[k + 1][1]))}
    IN joined \cup {k + 1 : k \in joined}

\* the values of the numbers of s that are not an end of a range
ValuesOutsideRanges(s) ==
    LET ms == NumberMatches(s, 0)
    IN {ParseFloat(Slice(s, ms[k][1], ms[k][2])) : k \in (1..Len(ms)) \ RangeEnds(s)}

\* C2: the value _extract_value_unit_from_line returns for a line is never
\* a number that is one end of a reference range (two numbers joined by a
\* hyphen, an en-dash, "to" or "~"): it is a number of the line outside any range.
C2_NeverARangeEnd ==
    (pc = "done" /\ ret.found) => ret.val \in ValuesOutsideRanges(arg)

-----------------------------------------------------------------------------
(* The scan of a page *)

\* what a match of an alias of field f on line i (0-based) of ls yields
Resolved(ls, i, f) ==
    LET m == PatternSearch(ls[i + 1], f)
    IN IF m.found THEN ResolveAt(ls, i, m) ELSE NoValue

\* the lines of ls where an alias of f matches and yields a standalone value
ResolvingLines(ls, f) == {i \in 0..(Len(ls) - 1) : Resolved(ls, i, f).found}

Earliest(S) == CHOOSE i \in S : \A j \in S : i <= j

\* C3: while _parse_lines scans the lines, no step changes the value or the
\* unit of a field that is already resolved, and when the scan ends every
\* resolved field holds what the earliest line whose alias match yields a
\* standalone value gave.
C3_FirstMatchWins ==
    [][/\ \A f \in DOMAIN out : f \in DOMAIN out' /\ out'[f] = out[f]
       /\ (pc = "scan" /\ pc' = "derive") =>
             \A f \in DOMAIN out' :
                /\ ResolvingLines(lines, f) # {}
                /\ LET r == Resolved(lines, Earliest(ResolvingLines(lines, f)), f)
                   IN out'[f] = [val |-> r.val, unit |-> r.unit]]_vars

\* the scan has ended with hdl resolved, and a later line whose alias match
\* yields another value for hdl was scanned after it
C3_Witness ==
    /\ pc = "derive"
    /\ "hdl" \in DOMAIN out
    /\ \E i \in ResolvingLines(lines, "hdl") :
          /\ i > Earliest(ResolvingLines(lines, "hdl"))
          /\ Resolved(lines, i, "hdl").val # out.hdl.val

-----------------------------------------------------------------------------
(* The lookahead *)

\* the first standalone number on line i (0-based) of ls, if ls has that line
ValueOnLine(ls, i) ==
    IF i < Len(ls) THEN _extract_value_unit_from_line(ls[i + 1]) ELSE NoValue

\* the first standalone number after the match m on its own line
ValueAfterMatch(ln, m) == _extract_value_unit_from_line(Slice(ln, m.end, Len(ln)))

\* C4: a field whose alias matches on line i takes the first standalone number
\* after the match on line i; if there is none, the first standalone number of
\* line i+1; if there is none either, that of line i+2; and if none of the three
\* has one, the match resolves nothing. No other line gives the value.
C4_Lookahead ==
    [][(pc = "scan" /\ li' = li + 1) =>
          \A f \in Fields \ DOMAIN out :
             LET m == PatternSearch(lines[li + 1], f)
                 same == ValueAfterMatch(lines[li + 1], m)
                 one == ValueOnLine(lines, li + 1)
                 two == ValueOnLine(lines, li + 2)
                 r == IF same.found THEN same ELSE IF one.found THEN one ELSE two
             IN IF m.found /\ r.found
                THEN f \in DOMAIN out' /\ out'[f] = [val |-> r.val, unit |-> r.unit]
                ELSE f \notin DOMAIN out']_vars

\* hdl was resolved from the second line after the line its alias matched on
C4_Witness ==
    /\ pc = "scan"
    /\ "hdl" \in DOMAIN out
    /\ \E i \in 0..(li - 1) :
          LET m == PatternSearch(lines[i + 1], "hdl")
          IN /\ m.found
             /\ ~ValueAfterMatch(lines[i + 1], m).found
             /\ ~ValueOnLine(lines, i + 1).found
             /\ ValueOnLine(lines, i + 2).found
             /\ out.hdl.val = ValueOnLine(lines, i + 2).val
             /\ i + 3 < Len(lines)
             /\ ValueOnLine(lines, i + 3).found

-----------------------------------------------------------------------------
(* Unit normalization *)

\* the multiplier of a field, in ten-thousandths: 38.67, 88.57, 18.0182
MultiplierOf(name) ==
    IF name \in {"total_cholesterol", "hdl", "ldl"} THEN 386700
    ELSE IF name = "triglycerides" THEN 885700
    ELSE IF name = "glucose" THEN 180182
    ELSE 0

\* whether r is a 2-decimal number nearest to value * mult / 10000
IsNearestHundredth(r, value, mult) ==
    LET den == 100 * Pow10(value.e)
        num == value.m * mult
        q == num \div den
        rem == num % den
    IN /\ r.e <= 2
       /\ \/ r.m * Pow10(2 - r.e) = q /\ 2 * rem <= den
          \/ r.m * Pow10(2 - r.e) = q + 1 /\ 2 * rem >= den

\* C5: _normalize_units gives every field a value; it is the value read,
\* unchanged, unless the unit denotes mmol/L and the field is total_cholesterol,
\* hdl, ldl, triglycerides or glucose: then it is the value times the field's
\* multiplier, rounded to 2 decimals.
C5_UnitNormalization ==
    pc = "done" =>
        /\ DOMAIN ret = DOMAIN arg
        /\ \A name \in DOMAIN arg :
              IF arg[name].unit \in MmolTexts /\ MultiplierOf(name) # 0
              THEN IsNearestHundredth(ret[name], arg[name].val, MultiplierOf(name))
              ELSE ret[name] = arg[name].val

\* hdl read as 1.3 mmol/L was normalized to 50.27
C5_Witness ==
    /\ pc = "done"
    /\ arg = ("hdl" :> [val |-> Canon(13, 1), unit |-> <<"m","m","o","l","/","L">>])
    /\ ret = ("hdl" :> Canon(5027, 2))

-----------------------------------------------------------------------------
(* Derived metrics *)

\* r as a count of hundredths, for r of at most 2 decimals
Hundredths(r) == r.m * Pow10(2 - r.e)

\* whether r is a 2-decimal number nearest to max(0, tc - h)
IsNonHdlOf(r, tc, h) ==
    LET e == Max(tc.e, h.e)
        d == tc.m * Pow10(e - tc.e) - h.m * Pow10(e - h.e)
        gap == Hundredths(r) * Pow10(e) - 100 * d
    IN /\ r.e <= 2
       /\ IF d <= 0 THEN r = Zero
          ELSE 2 * gap <= Pow10(e) /\ -2 * gap <= Pow10(e)

\* whether r is a 2-decimal number nearest to tc / h, for h > 0
IsRatioOf(r, tc, h) ==
    LET den == h.m * Pow10(tc.e)
        gap == Hundredths(r) * den - 100 * tc.m * Pow10(h.e)
    IN r.e <= 2 /\ 2 * gap <= den /\ -2 * gap <= den

\* C6: the derived-metric step of parse_labs, when total_cholesterol and hdl
\* are present after unit normalization and non_hdl is not, sets non_hdl to
\* max(0, total_cholesterol - hdl) rounded to 2 decimals, and sets
\* chol_hdl_ratio, to total_cholesterol / hdl rounded to 2 decimals, exactly
\* when hdl > 0 (with hdl = 0 the step sets no chol_hdl_ratio: the map has one
\* after the step only if it had that one before). When total_cholesterol or
\* hdl is missing the step computes nothing.
C6_DerivedMetrics ==
    [][(pc = "derive" /\ pc' = "part") =>
          IF "total_cholesterol" \in DOMAIN norm /\ "hdl" \in DOMAIN norm
          THEN "non_hdl" \notin DOMAIN norm =>
                  /\ "non_hdl" \in DOMAIN norm'
                  /\ IsNonHdlOf(norm'.non_hdl, norm.total_cholesterol, norm.hdl)
                  /\ IF norm.hdl.m > 0
                     THEN /\ "chol_hdl_ratio" \in DOMAIN norm'
                          /\ IsRatioOf(norm'.chol_hdl_ratio, norm.total_cholesterol, norm.hdl)
                     ELSE /\ "chol_hdl_ratio" \in DOMAIN norm' <=> "chol_hdl_ratio" \in DOMAIN norm
                          /\ "chol_hdl_ratio" \in DOMAIN norm =>
                                norm'.chol_hdl_ratio = norm.chol_hdl_ratio
          ELSE norm' = norm]_vars

\* total_cholesterol = 200 and hdl = 50 were read, non_hdl and chol_hdl_ratio
\* were not, and the step has set non_hdl = 150.0 and chol_hdl_ratio = 4.0
C6_Witness ==
    /\ pc = "part"
    /\ DOMAIN out = {"total_cholesterol", "hdl"}
    /\ norm.total_cholesterol = Canon(200, 0)
    /\ norm.hdl = Canon(50, 0)
    /\ norm.non_hdl = Canon(150, 0)
    /\ norm.chol_hdl_ratio = Canon(4, 0)

-----------------------------------------------------------------------------
(* The raw text of a document *)

\* the texts of the pages, in page order, with the separator between them
PagesJoined ==
    LET j[n \in 0..Len(pages)] ==
            IF n = 0 THEN <<>>
            ELSE IF n = 1 THEN pages[1]
            ELSE j[n - 1] \o PageSeparator \o pages[n]
    IN j[Len(pages)]

\* C7: the raw_text process_pdf_bytes returns has at most 5000 characters and
\* is a prefix of the page texts joined in page order with the separator; it is
\* the whole joined text when that has at most 5000 characters.
C7_Truncation ==
    (pc = "done" /\ arg.source = "pdf") =>
        LET joined == PagesJoined
            raw == ret.raw_text
        IN /\ Len(raw) <= 5000
           /\ Len(raw) <= Len(joined)
           /\ \A k \in 1..Len(raw) : raw[k] = joined[k]
           /\ Len(joined) <= 5000 => raw = joined

\* a document whose joined page texts have more than 5000 characters has
\* returned, with a raw_text of 5000 characters
C7_Witness ==
    /\ pc = "done"
    /\ arg.source = "pdf"
    /\ Len(PagesJoined) > 5000
    /\ Len(ret.raw_text) = 5000

-----------------------------------------------------------------------------
(* Failures *)

\* C8: when a call made for page k of a document fails, the exception leaves
\* process_pdf_bytes at that point: the page counter, the merged fields and the
\* collected texts are as the pages before k left them, and nothing happens
\* afterwards: no later page is processed, the failing call is not made again
\* and no result is returned.
C8_FailurePropagation ==
    [][/\ ret.kind # "raise"
       /\ ret'.kind = "raise" =>
             /\ pc' = "raised"
             /\ ret'.page = idx
             /\ UNCHANGED <<idx, merged, texts>>]_vars

\* the recognition of the second page of a three-page document has failed after
\* the first page had given fields
C8_Witness ==
    /\ pc = "raised"
    /\ ret.kind = "raise"
    /\ ret.what = "ocr_to_text"
    /\ ret.page = 1
    /\ Len(pages) = 3
    /\ merged # EmptyMap
    /\ Len(texts) = 1

-----------------------------------------------------------------------------
(* The frame of the derived-metric step *)

\* C9: the derived-metric step of parse_labs changes the value of no field
\* that is present before it: every field of the normalized map, non_hdl and
\* chol_hdl_ratio read from the text included, has the same value after it.
C9_DerivedStepKeepsFields ==
    [][(pc = "derive" /\ pc' = "part") =>
          \A f \in DOMAIN norm : f \in DOMAIN norm' /\ norm'[f] = norm[f]]_vars

-----------------------------------------------------------------------------
(* Field parse misses *)

\* whether an alias of f matches line i (0-based) of ls
AliasMatches(ls, i, f) == PatternSearch(ls[i + 1], f).found

\* whether a standalone number is found after the match on line i or on one of
\* the two following lines
ValueInReach(ls, i, f) ==
    \/ ValueAfterMatch(ls[i + 1], PatternSearch(ls[i + 1], f)).found
    \/ ValueOnLine(ls, i + 1).found
    \/ ValueOnLine(ls, i + 2).found

\* the lines where an alias of f matches without a value in reach
Misses(ls, f) == {i \in 0..(Len(ls) - 1) : AliasMatches(ls, i, f) /\ ~ValueInReach(ls, i, f)}

\* the lines where an alias of f matches with a value in reach
Hits(ls, f) == {i \in 0..(Len(ls) - 1) : AliasMatches(ls, i, f) /\ ValueInReach(ls, i, f)}

DerivedFields == {"non_hdl", "chol_hdl_ratio"}

\* C10, as stated: a field with an alias match that has no standalone number
\* on the rest of its line or on the two following lines is absent from the
\* output of the page.
C10_MissMeansAbsent ==
    pc = "part" => \A f \in Fields : Misses(lines, f) # {} => f \notin DOMAIN norm

\* C10, amended: an alias match without a standalone number on the rest of
\* its line or on the two following lines resolves nothing and raises nothing.
\* A field with such a match is in the map _parse_lines returns exactly when
\* another line matching one of its aliases has a value in reach, and, unless it
\* is non_hdl or chol_hdl_ratio, it is in the output of the page exactly then.
C10_MissResolvesNothing ==
    pc \in {"derive", "part"} =>
        \A f \in Fields :
            Misses(lines, f) # {} =>
                /\ f \in DOMAIN out <=> Hits(lines, f) # {}
                /\ (pc = "part" /\ f \notin DerivedFields) =>
                      (f \in DOMAIN norm <=> Hits(lines, f) # {})

\* a page where the only lines matching an alias of hdl have no value in reach
\* was parsed, and hdl is not in its output
C10_Witness ==
    /\ pc = "part"
    /\ Misses(lines, "hdl") # {}
    /\ Hits(lines, "hdl") = {}
    /\ Len(lines) > 1
    /\ "hdl" \notin DOMAIN norm
    /\ ret.kind = "none"

-----------------------------------------------------------------------------
(* _parse_lines with the fields tried in another order *)

\* how many lines a text parsed in several orders has at most
MaxOrderLines == 2

OrderTexts == Texts(LabLines, MaxOrderLines)

\* the places of hdl, non_hdl and chol_hdl_ratio in the table
MovedPlaces == {k \in 1..Len(FieldOrder) : FieldOrder[k] \in {"hdl", "non_hdl", "chol_hdl_ratio"}}

\* the orders the fields are tried in: the order of the table, the orders that
\* permute hdl, non_hdl and chol_hdl_ratio among their places, and the table
\* read backwards
FieldOrders ==
    {[k \in 1..Len(FieldOrder) |-> IF k \in MovedPlaces THEN FieldOrder[q[k]] ELSE FieldOrder[k]] :
        q \in {f \in [MovedPlaces -> MovedPlaces] : \A a, b \in MovedPlaces : f[a] = f[b] => a = b}}
    \cup {[k \in 1..Len(FieldOrder) |-> FieldOrder[Len(FieldOrder) + 1 - k]]}

\* _parse_lines(text) with PATTERNS.items() giving the fields in a chosen order
LinesOf(t, order) == [source |-> "lines", text |-> t, order |-> order]

InitOrder ==
    /\ pc = "split"
    /\ \E t \in OrderTexts, order \in FieldOrders : arg = LinesOf(t, order) /\ text = t
    /\ ret = NoResult
    /\ lines = Idle /\ li = 0 /\ out = EmptyMap /\ norm = EmptyMap
    /\ pages = Idle /\ idx = 0 /\ merged = EmptyMap /\ texts = Idle

\* one iteration of "for i, ln in enumerate(lines)", the fields tried in arg.order
ScanLineInOrder ==
    /\ pc = "scan"
    /\ li < Len(lines)
    /\ out' = StepLine(out, lines, li, arg.order, 1)
    /\ li' = li + 1
    /\ UNCHANGED <<pc, arg, ret, text, lines, norm, pages, idx, merged, texts>>

\* return out
ReturnLines ==
    /\ pc = "scan"
    /\ li = Len(lines)
    /\ ret' = [kind |-> "return", fields |-> out]
    /\ pc' = "done"
    /\ UNCHANGED <<arg, text, lines, li, out, norm, pages, idx, merged, texts>>

NextOrder == SplitText \/ ScanLineInOrder \/ ReturnLines

SpecOrder == InitOrder /\ [][NextOrder]_vars

\* C11: whatever the order the fields are tried in on each line, _parse_lines
\* returns the same map: a field is in it exactly when some line matching one of
\* its aliases yields a standalone value, with what the earliest such line
\* yields. That depends on the lines and the field's aliases alone, so a line
\* may resolve several fields and no field takes a number from another.
C11_FieldOrderIndependence ==
    (pc = "done" /\ arg.source = "lines") =>
        /\ DOMAIN ret.fields \subseteq Fields
        /\ \A f \in Fields :
              LET on == ResolvingLines(lines, f)
              IN /\ f \in DOMAIN ret.fields <=> on # {}
                 /\ on # {} =>
                       LET r == Resolved(lines, Earliest(on), f)
                       IN ret.fields[f] = [val |-> r.val, unit |-> r.unit]

\* a text was parsed with non_hdl tried before hdl, and one line resolved both
C11_Witness ==
    /\ pc = "done"
    /\ arg.source = "lines"
    /\ \E a, b \in 1..Len(FieldOrder) :
          a < b /\ arg.order[a] = "non_hdl" /\ arg.order[b] = "hdl"
    /\ Len(lines) = 2
    /\ {"hdl", "non_hdl"} \subseteq DOMAIN ret.fields
    /\ Earliest(ResolvingLines(lines, "hdl")) = Earliest(ResolvingLines(lines, "non_hdl"))
    /\ ret.fields.hdl = ret.fields.non_hdl

-----------------------------------------------------------------------------
(* Derived values in a merged document *)

\* what _parse_lines reads from each page text
PageRead == [t \in PdfTexts |-> _parse_lines(t)]

\* whether the non_hdl of the merged fields was computed by the derived-metric
\* step of its page, not read from the text of that page
NonHdlComputed ==
    /\ PagesWith("non_hdl") # {}
    /\ "non_hdl" \notin DOMAIN PageRead[pages[FirstPageWith("non_hdl")]]

\* C12, as stated: in a result of process_pdf_bytes that holds
\* total_cholesterol, hdl and a computed non_hdl, non_hdl is
\* max(0, total_cholesterol - hdl) of the merged fields.
C12_MergedNonHdlConsistent ==
    (/\ pc = "done"
     /\ arg.source = "pdf"
     /\ {"total_cholesterol", "hdl", "non_hdl"} \subseteq DOMAIN ret.fields
     /\ NonHdlComputed) =>
        IsNonHdlOf(ret.fields.non_hdl, ret.fields.total_cholesterol, ret.fields.hdl)

\* C12, amended: in a result of process_pdf_bytes that holds a computed
\* non_hdl, total_cholesterol and hdl are present too, and non_hdl is
\* max(0, total_cholesterol - hdl) of the FieldMap of the page it comes from,
\* the lowest-indexed page whose FieldMap holds non_hdl; the merged
\* total_cholesterol and hdl may come from earlier pages and differ from those.
C12_NonHdlOfItsPage ==
    (pc = "done" /\ arg.source = "pdf" /\ NonHdlComputed) =>
        LET page == PageFields[pages[FirstPageWith("non_hdl")]]
        IN /\ {"total_cholesterol", "hdl", "non_hdl"} \subseteq DOMAIN ret.fields
           /\ {"total_cholesterol", "hdl"} \subseteq DOMAIN page
           /\ IsNonHdlOf(ret.fields.non_hdl, page.total_cholesterol, page.hdl)

\* a document has returned whose computed non_hdl comes from its second page
\* and whose total_cholesterol comes from its first, with another value
C12_Witness ==
    /\ pc = "done"
    /\ arg.source = "pdf"
    /\ NonHdlComputed
    /\ FirstPageWith("non_hdl") = 2
    /\ FirstPageWith("total_cholesterol") = 1
    /\ ret.fields.total_cholesterol = Canon(180, 0)
    /\ ret.fields.hdl = Canon(50, 0)
    /\ ret.fields.non_hdl = Canon(150, 0)

=============================================================================
